---- MODULE Spec2Model ----
(***************************************************************************)
(* A model of two components of the notebook extension:                    *)
(*   - JupyterCompletionProvider (provideCompletionItems,                  *)
(*     getJupyterCompletion, generateSortString), and                      *)
(*   - RawNotebookProviderBase (connect, getConnection, setNotebook,       *)
(*     getNotebook, dispose, createNotebook).                              *)
(* JavaScript runs one task to completion and then drains the microtask    *)
(* queue.  In the completion provider an event (a timer, a reply, a        *)
(* cancellation) is one task together with the promise continuations it    *)
(* triggers.  In the registry every method call, every event (a promise    *)
(* settling, a session signalling disposal, a disposal completing) and     *)
(* every microtask of the provider (a callback of setNotebook, a           *)
(* continuation of dispose()) is a step of its own, so that calls and      *)
(* events of other parties fall between any two of them.  The callbacks    *)
(* of setNotebook run in the order in which they were queued.              *)
(***************************************************************************)
EXTENDS Integers, Sequences, FiniteSets, Bags, TLC

VARIABLES
    \* ---- generateSortString ----
    sortIndex,      \* the index handed to generateSortString
    sortPrev,       \* generateSortString(sortIndex - 1), once computed
    sortText,       \* generateSortString(sortIndex), once computed
    sortDone,       \* whether the two keys have been computed
    \* ---- JupyterCompletionProvider ----
    pc,             \* position of provideCompletionItems: idle, racing, done
    req,            \* the inputs of the call (document, notebook, kernel, session)
    token,          \* token.isCancellationRequested
    rpc,            \* session.requestComplete: none, pending, resolved, rejected, threw
    rpcReply,       \* the reply requestComplete resolved with
    rpcCount,       \* number of requestComplete calls issued
    cancelPromise,  \* createPromiseFromCancellation's promise: none, pending, resolved
    inner,          \* getJupyterCompletion's promise
    timer,          \* sleep(timeout).then(...): none, pending, undefined, sentinel
    raceResult,     \* what the outer Promise.race settled with
    outcome,        \* what provideCompletionItems returned (or that it threw)
    calls,          \* collaborators invoked by the call
    events,         \* order in which call, cancel, rpc and timer happened
    \* ---- RawNotebookProviderBase ----
    notebooks,      \* this.notebooks: key -> promise (NoPromise: no entry)
    keyOrder,       \* the keys of this.notebooks in the order of insertion
    rawConnection,  \* this.rawConnection: NoConnection or the instance
    created,        \* number of RawConnection instances constructed so far
    callResult,     \* the method called in the last step and what it returned
    promiseState,   \* each session promise: pending, rejected, or what it
                    \* resolved with: resolved (a notebook with a session),
                    \* nosession (a notebook without one), undefined
    handlers,       \* promise -> the keys whose callbacks of setNotebook are
                    \* registered on it while it is pending, in the order
                    \* of their registration
    listeners,      \* promise -> the keys whose onDidDispose listener is
                    \* attached to its session
    sessionState,   \* each execution session: live, disposed
    disposeCalls,   \* the dispose() calls in progress, a bag of DisposeCall
    microtasks,     \* the queue of microtasks: callbacks of setNotebook
    lastRuns        \* the setNotebook handlers that ran in the last step

sortVars == <<sortIndex, sortPrev, sortText, sortDone>>
compVars == <<pc, req, token, rpc, rpcReply, rpcCount, cancelPromise, inner,
              timer, raceResult, outcome, calls, events>>
regVars == <<notebooks, keyOrder, rawConnection, created, callResult,
             promiseState,
             handlers, listeners, sessionState, disposeCalls, microtasks,
             lastRuns>>
vars == <<sortVars, compVars, regVars>>

(***************************************************************************)
(* Strings whose characters matter are sequences of UTF-16 code units.     *)
(***************************************************************************)
CharA == 65
CharZ == 90

\* JavaScript's < on strings: lexicographic on code units, a proper prefix first.
RECURSIVE StrLess(_, _)
StrLess(a, b) ==
    IF b = <<>> THEN FALSE
    ELSE IF a = <<>> THEN TRUE
    ELSE IF Head(a) < Head(b) THEN TRUE
    ELSE IF Head(a) > Head(b) THEN FALSE
    ELSE StrLess(Tail(a), Tail(b))

\* Math.ceil(n / d) for n >= 0, d > 0
CeilDiv(n, d) == (n + d - 1) \div d

(***************************************************************************)
(* generateSortString                                                      *)
(***************************************************************************)
SortLimit == 300
SortFirstRow == 25
SortBase == 25
SortLast == <<CharZ, CharZ, CharZ, CharZ, CharZ, CharZ, CharZ>>

generateSortString(index) ==
    IF index >= SortLimit THEN SortLast
    ELSE IF index <= SortFirstRow THEN <<CharA, CharA + index>>
    ELSE <<CharA + CeilDiv(index, SortBase), CharA + (index % SortBase)>>

MaxSortIndex == 301
SortIndices == 0..MaxSortIndex

(***************************************************************************)
(* Completion data.  A value received from the kernel is loosely typed:    *)
(* every field of an experimental element carries the typeof it has.       *)
(***************************************************************************)
MaxMatches == 2
MaxExperimental == 2

MatchStrings == {"a", "b"}

\* An element of metadata._jupyter_types_experimental.  isNull: the element is
\* null, so reading a property of it throws a TypeError.  type "": no type tag.
Element(isNull, startT, endT, textT, start, end, text, type) ==
    [isNull |-> isNull, startT |-> startT, endT |-> endT, textT |-> textT,
     start |-> start, end |-> end, text |-> text, type |-> type]

ElemInstance == Element(FALSE, "number", "number", "string", 2, 4, "abcd", "instance")
ElemFunction == Element(FALSE, "number", "number", "string", 2, 4, "abce", "function")
ElemUntyped == Element(FALSE, "number", "number", "string", 0, 1, "abcf", "")
ElemNoText == Element(FALSE, "number", "number", "undefined", 2, 4, "", "function")
ElemBadStart == Element(FALSE, "string", "number", "string", 0, 4, "abcd", "")
ElemNull == Element(TRUE, "undefined", "undefined", "undefined", 0, 0, "", "")
ElemUnknownTag == Element(FALSE, "number", "number", "string", 2, 4, "abcg", "nosuchkind")

Elements ==
    {ElemInstance, ElemFunction, ElemUntyped, ElemNoText, ElemBadStart, ElemNull,
     ElemUnknownTag}

SeqsUpTo(S, n) == UNION {[1..k -> S] : k \in 0..n}

\* metadata._jupyter_types_experimental: absent, not an array, or an array
ExpAbsent == [kind |-> "absent", elems |-> <<>>]
ExpNotArray == [kind |-> "nonarray", elems |-> <<>>]
ExpArray(es) == [kind |-> "array", elems |-> es]
ExpFields == {ExpAbsent, ExpNotArray} \cup {ExpArray(es) : es \in SeqsUpTo(Elements, MaxExperimental)}

\* result.metadata: absent (falsy), or an object with the experimental field
MetaAbsent == [present |-> FALSE, exp |-> ExpAbsent]
Meta(exp) == [present |-> TRUE, exp |-> exp]
Metas == {MetaAbsent} \cup {Meta(x) : x \in ExpFields}

\* INotebookCompletion
Completion(matches, cs, ce, metadata) ==
    [matches |-> matches, cursor |-> [start |-> cs, end |-> ce], metadata |-> metadata]

\* { matches: [], cursor: { start: 0, end: 0 }, metadata: {} }
emptyResult == Completion(<<>>, 0, 0, Meta(ExpAbsent))

\* What session.requestComplete may resolve with: undefined, a message without
\* content, content without matches (an error reply), or a complete_reply.
Reply(shape, content) == [shape |-> shape, content |-> content]
ReplyUndefined == Reply("undefined", emptyResult)
ReplyNoContent == Reply("nocontent", emptyResult)
ReplyNoMatches == Reply("nomatches", emptyResult)
Cursors == {<<0, 0>>, <<2, 4>>}
Replies ==
    {ReplyUndefined, ReplyNoContent, ReplyNoMatches} \cup
    {Reply("matches", Completion(m, c[1], c[2], md)) :
        m \in SeqsUpTo(MatchStrings, MaxMatches), c \in Cursors, md \in Metas}

(***************************************************************************)
(* provideCompletionItems, after the race: result -> CompletionItem[]      *)
(***************************************************************************)
NoRange == <<0, 0>>

\* CompletionItem; hasRange FALSE and kind "none": the property is not set.
Item(label, hasRange, range, kind, sortKey) ==
    [label |-> label, hasRange |-> hasRange, range |-> range, kind |-> kind,
     sortText |-> sortKey]

Returned(items) == [st |-> "items", items |-> items]
Thrown == [st |-> "error", items |-> <<>>]
NotReturned == [st |-> "none", items |-> <<>>]

\* mapJupyterKind.get(tag): undefined for a tag the table does not hold
KnownKinds == {"function", "class", "module", "keyword"}
mapJupyterKind(tag) == IF tag \in KnownKinds THEN tag ELSE "undefined"

\* result.metadata ? result.metadata._jupyter_types_experimental : []
experimentMatches(result) ==
    IF result.metadata.present THEN result.metadata.exp ELSE ExpArray(<<>>)

\* The callback of experimentMatches.every
ElementOk(item) ==
    item.startT = "number" /\ item.endT = "number" /\ item.textT = "string"

\* Array.prototype.every stops at the first element that fails the callback,
\* so a null element throws only if every element before it passed.
EveryThrows(es) ==
    \E i \in 1..Len(es) : es[i].isNull /\ \A j \in 1..(i - 1) : ElementOk(es[j])

\* Array.isArray(x) && x.length >= matches.length, the part before .every
ArrayLongEnough(exp, matches) ==
    exp.kind = "array" /\ Len(exp.elems) >= Len(matches)

\* Mutant of UseExperimental: the experimental set must be exactly as long as matches
UseExperimentalSameLength(exp, matches) ==
    /\ exp.kind = "array"
    /\ Len(exp.elems) = Len(matches)
    /\ \A i \in 1..Len(exp.elems) : ElementOk(exp.elems[i])

\* Lines 85-90: the experimental set is used
UseExperimental(exp, matches) ==
    ArrayLongEnough(exp, matches) /\ \A i \in 1..Len(exp.elems) : ElementOk(exp.elems[i])

ExperimentalItem(item, index) ==
    Item(item.text, TRUE, <<item.start, item.end>>,
         IF item.type # "" THEN mapJupyterKind(item.type) ELSE "Field",
         generateSortString(index))

ExperimentalItems(es) == [i \in 1..Len(es) |-> ExperimentalItem(es[i], i - 1)]

MatchItem(item, index) == Item(item, FALSE, NoRange, "none", generateSortString(index))

MatchItems(matches) == [i \in 1..Len(matches) |-> MatchItem(matches[i], i - 1)]

\* Lines 80-114 for a result that is not undefined
ItemsOf(result) ==
    LET exp == experimentMatches(result) IN
    IF ArrayLongEnough(exp, result.matches) /\ EveryThrows(exp.elems) THEN Thrown
    ELSE IF UseExperimental(exp, result.matches) THEN Returned(ExperimentalItems(exp.elems))
    ELSE Returned(MatchItems(result.matches))

\* The race's result: nothing yet, undefined, a completion, or a rejection
RacePending == [st |-> "pending", val |-> emptyResult]
RaceUndefined == [st |-> "undefined", val |-> emptyResult]
RaceValue(v) == [st |-> "value", val |-> v]
RaceRejected == [st |-> "rejected", val |-> emptyResult]

\* Lines 74-114: what provideCompletionItems does with the race's result
AfterRace(r) ==
    IF r.st = "rejected" THEN Thrown
    ELSE IF r.st = "undefined" THEN Returned(<<>>)
    ELSE ItemsOf(r.val)

\* Lines 142-158: requestComplete's reply -> INotebookCompletion
CompletionOfReply(reply) ==
    IF reply.shape = "matches" THEN reply.content ELSE emptyResult

\* Lines 66-72: the timer branch yields undefined once cancellation was
\* requested, the empty result otherwise
TimerBranch(cancelled) == IF cancelled THEN "undefined" ELSE "sentinel"

\* Mutant of RaceOfTimer: the timer branch never settles the race
RaceOfTimerNever(t) == RacePending

\* Lines 64-73: what the timer branch settles the race with
RaceOfTimer(t) == IF t = "sentinel" THEN RaceValue(emptyResult) ELSE RaceUndefined

(***************************************************************************)
(* provideCompletionItems and getJupyterCompletion as tasks                *)
(***************************************************************************)
Requests ==
    [isCell : BOOLEAN, hasNotebook : BOOLEAN, hasKernel : BOOLEAN,
     hasSession : BOOLEAN, busy : BOOLEAN]
NoRequest ==
    [isCell |-> FALSE, hasNotebook |-> FALSE, hasKernel |-> FALSE,
     hasSession |-> FALSE, busy |-> FALSE]

\* A task of one component leaves the state of the others alone
OnlySort == UNCHANGED <<compVars, regVars>>
OnlyCompletion == UNCHANGED <<sortVars, regVars>>
OnlyRegistry == UNCHANGED <<sortVars, compVars>>

InnerPending == [st |-> "pending", val |-> emptyResult]
InnerNone == [st |-> "none", val |-> emptyResult]
InnerResolved(v) == [st |-> "resolved", val |-> v]
InnerRejected == [st |-> "rejected", val |-> emptyResult]

\* Lines 40-58: the guards before the race, in the order the code asks them
GuardsPass(r) == r.isCell /\ r.hasNotebook /\ r.hasKernel /\ r.hasSession

\* Mutant of GuardCalls: the notebook resolver is asked before the cell check
GuardCallsResolverFirst(r) ==
    IF ~r.hasNotebook THEN {"resolver"} ELSE {"resolver", "provider"}

\* The collaborators the guards consult before one of them fails
GuardCalls(r) ==
    IF ~r.isCell THEN {}
    ELSE IF ~r.hasNotebook THEN {"resolver"}
    ELSE {"resolver", "provider"}

\* Mutant of SkipsRequest: the session's status is not looked at
SkipsRequestNever(r) == FALSE

\* Line 123: a busy session is answered without a request
SkipsRequest(r) == r.busy

\* createPromiseFromCancellation({cancelAction: 'resolve'}): resolved once the
\* token is cancelled
CancelPromiseOf(cancelled) == IF cancelled THEN "resolved" ELSE "pending"

\* Mutant of RaceSettle: the branch that settles last decides
RaceSettleLast(current, with) == with

\* Promise.race of line 64 settles with the first branch that settles; a
\* later branch does not change it
RaceSettle(current, with) == IF current.st = "pending" THEN with ELSE current

\* A branch of the outer race settles with r: provideCompletionItems returns
\* what the race settled with
Finish(r) ==
    /\ raceResult' = RaceSettle(raceResult, r)
    /\ IF raceResult'.st = "pending"
       THEN UNCHANGED <<outcome, pc>>
       ELSE /\ outcome' = AfterRace(raceResult')
            /\ pc' = "done"

\* How the call session.requestComplete(...) of line 131 ends: it returns a
\* promise that is still pending, one that has resolved with a reply, one
\* that has rejected, or it throws
RequestReturns == {"pending", "resolved", "rejected", "threw"}

\* The replies a call that ends in that way can carry
RepliesOf(how) == IF how = "resolved" THEN Replies ELSE {ReplyUndefined}

\* What the order of events records of a request that is settled when the
\* call returns
RequestEvents(how) ==
    IF how = "resolved" THEN <<"rpc">>
    ELSE IF how \in {"rejected", "threw"} THEN <<"rpcfail">>
    ELSE <<>>

\* Lines 130-136: the race of getJupyterCompletion at the time it is built.
\* Promise.race settles with the first element of [request, cancellation]
\* that is settled, so a request that is settled when it is returned wins
\* over a cancellation promise that is resolved; a request that throws
\* makes getJupyterCompletion reject before the cancellation promise exists.
InnerRace(how, reply, cancelled) ==
    IF how = "resolved" THEN InnerResolved(CompletionOfReply(reply))
    ELSE IF how \in {"rejected", "threw"} THEN InnerRejected
    ELSE IF cancelled = "resolved" THEN InnerResolved(emptyResult)
    ELSE InnerPending

\* provideCompletionItems is called: the guards, then both branches of the
\* race are started; a branch that is settled at once decides the race in
\* the same task.
Provide(r, how, reply) ==
    /\ OnlyCompletion
    /\ req' = r
    /\ UNCHANGED token
    /\ IF ~GuardsPass(r)
       THEN /\ calls' = GuardCalls(r)
            /\ events' = Append(events, "call")
            /\ outcome' = Returned(<<>>)
            /\ pc' = "done"
            /\ UNCHANGED <<rpc, rpcReply, rpcCount, cancelPromise, inner, timer,
                           raceResult>>
       ELSE /\ calls' = {"resolver", "provider", "session"}
            /\ timer' = "pending"
            /\ IF SkipsRequest(r)
               THEN /\ inner' = InnerResolved(emptyResult)
                    /\ events' = Append(events, "call")
                    /\ UNCHANGED <<rpc, rpcReply, rpcCount, cancelPromise>>
               ELSE /\ rpc' = how
                    /\ rpcReply' = IF how = "resolved" THEN reply ELSE rpcReply
                    /\ rpcCount' = rpcCount + 1
                    /\ cancelPromise' = IF how = "threw" THEN cancelPromise
                                        ELSE CancelPromiseOf(token)
                    /\ inner' = InnerRace(how, reply, cancelPromise')
                    /\ events' = Append(events, "call") \o RequestEvents(how)
            /\ IF inner'.st = "resolved"
               THEN /\ raceResult' = RaceValue(inner'.val)
                    /\ outcome' = AfterRace(raceResult')
                    /\ pc' = "done"
               ELSE IF inner'.st = "rejected"
               THEN /\ raceResult' = RaceRejected
                    /\ outcome' = AfterRace(raceResult')
                    /\ pc' = "done"
               ELSE /\ pc' = "racing"
                    /\ UNCHANGED <<raceResult, outcome>>

\* The editor asks for completions
ProvideCall ==
    /\ pc = "idle"
    /\ \E r \in Requests, how \in RequestReturns :
          \E reply \in RepliesOf(how) : Provide(r, how, reply)

\* session.requestComplete resolves with reply
RpcResolve(reply) ==
    /\ OnlyCompletion
    /\ rpc' = "resolved"
    /\ rpcReply' = reply
    /\ events' = Append(events, "rpc")
    /\ IF inner.st = "pending"
       THEN /\ inner' = InnerResolved(CompletionOfReply(reply))
            /\ Finish(RaceValue(inner'.val))
       ELSE UNCHANGED <<inner, raceResult, outcome, pc>>
    /\ UNCHANGED <<req, token, rpcCount, cancelPromise, timer, calls>>

\* session.requestComplete resolves with some reply
RpcSettle ==
    /\ rpc = "pending"
    /\ \E reply \in Replies : RpcResolve(reply)

\* session.requestComplete rejects: nothing catches it
RpcReject ==
    /\ OnlyCompletion
    /\ rpc = "pending"
    /\ rpc' = "rejected"
    /\ events' = Append(events, "rpcfail")
    /\ IF inner.st = "pending"
       THEN /\ inner' = InnerRejected
            /\ Finish(RaceRejected)
       ELSE UNCHANGED <<inner, raceResult, outcome, pc>>
    /\ UNCHANGED <<req, token, rpcReply, rpcCount, cancelPromise, timer, calls>>

\* The caller cancels the token
Cancel ==
    /\ OnlyCompletion
    /\ ~token
    /\ token' = TRUE
    /\ events' = Append(events, "cancel")
    /\ cancelPromise' = IF cancelPromise = "pending" THEN CancelPromiseOf(token')
                        ELSE cancelPromise
    /\ IF cancelPromise = "pending" /\ cancelPromise' = "resolved" /\ inner.st = "pending"
       THEN /\ inner' = InnerResolved(emptyResult)
            /\ Finish(RaceValue(inner'.val))
       ELSE UNCHANGED <<inner, raceResult, outcome, pc>>
    /\ UNCHANGED <<req, rpc, rpcReply, rpcCount, timer, calls>>

\* sleep(timeout) expires and its continuation runs
TimerFire ==
    /\ OnlyCompletion
    /\ timer = "pending"
    /\ timer' = TimerBranch(token)
    /\ events' = Append(events, "timer")
    /\ Finish(RaceOfTimer(timer'))
    /\ UNCHANGED <<req, token, rpc, rpcReply, rpcCount, cancelPromise, inner, calls>>

(***************************************************************************)
(* RawNotebookProviderBase                                                 *)
(***************************************************************************)
MaxPromises == 2
MaxDisposeCalls == 1            \* dispose() calls in progress at a time
MaxCallbacks == 2               \* callbacks of setNotebook registered on
                                \* pending promises or queued, at a time

Keys == {"docA", "docB"}        \* document.uri.toString()
Promises == 1..MaxPromises      \* the Promise<INotebook> objects handed in
NoPromise == 0                  \* this.notebooks.get(key) === undefined
NoConnection == 0               \* this.rawConnection === undefined
SessionOf(p) == p               \* nb.session of the notebook promise p holds

NoResult == [op |-> "none", key |-> "", val |-> 0, threw |-> FALSE]
Result(op, key, val) == [op |-> op, key |-> key, val |-> val, threw |-> FALSE]
Threw(op) == [op |-> op, key |-> "", val |-> 0, threw |-> TRUE]

\* Mutant of NeedsConnection: a connection is constructed on every call
NeedsConnectionAlways(conn) == TRUE

\* Lines 65 and 115: if (!this.rawConnection)
NeedsConnection(conn) == conn = NoConnection

\* Lines 65-67 and 115-117: this.rawConnection after the lazy creation;
\* a new RawConnection() is the n+1st instance
EnsureConnection(conn, n) == IF NeedsConnection(conn) THEN n + 1 ELSE conn

\* What a promise can resolve with: a notebook with an execution session
\* ("resolved"), a notebook without one, or undefined (the case line 100
\* guards against with n?.)
ResolvedWith == {"resolved", "nosession", "undefined"}

\* A number for each promise (or its session), none yet
NoPromises == [p \in Promises |-> 0]

\* The promises that occur in the array arr
Occurring(arr) == {arr[i] : i \in 1..Len(arr)}

\* The keys of the map
KeysIn(map) == {k \in Keys : map[k] # NoPromise}

\* A Map iterates in the order of insertion: a key that is set again keeps
\* its place, a deleted key loses it, a new key comes last
KeyOrderAfter(ord, map) ==
    LET kept == SelectSeq(ord, LAMBDA k : map[k] # NoPromise)
        new == KeysIn(map) \ {kept[i] : i \in 1..Len(kept)}
    IN IF new = {} THEN kept ELSE Append(kept, CHOOSE k \in new : TRUE)

\* One call of dispose(): where it stands (waiting: at the await of line 99,
\* disposing: at the await of line 100, done, failed), the array it made of
\* this.notebooks.values(), how often it called session.dispose() on the
\* session of each promise, how many of those calls' promises have
\* completed, whether one of the calls has failed (its promise rejected, or
\* the call threw), and the element at which line 100 stopped with an error
\* (0: it did not).
DisposeCall(pcNow, snap, asked, fin, bad, stop) ==
    [pc |-> pcNow, snap |-> snap, req |-> asked, fin |-> fin, bad |-> bad,
     stop |-> stop]

\* A dispose() call that has completed (done, failed) is over: the next step
\* finds it no longer in progress.
DisposeOver(c) == c.pc \in {"done", "failed"}

Ongoing(bag) ==
    LET left == {c \in BagToSet(bag) : ~DisposeOver(c)} IN
    [c \in left |-> bag[c]]

DisposeUntouched == disposeCalls' = Ongoing(disposeCalls)

RegUnchangedByCall ==
    /\ UNCHANGED <<notebooks, keyOrder, promiseState, handlers, listeners,
                   sessionState, microtasks>>
    /\ DisposeUntouched

connect(getOnly) ==
    /\ OnlyRegistry
    /\ rawConnection' =
          IF getOnly THEN rawConnection ELSE EnsureConnection(rawConnection, created)
    /\ created' = IF rawConnection' # rawConnection THEN created + 1 ELSE created
    /\ callResult' = Result(IF getOnly THEN "connectGetOnly" ELSE "connect", "", rawConnection')
    /\ lastRuns' = {}
    /\ RegUnchangedByCall

getConnection ==
    /\ OnlyRegistry
    /\ rawConnection' = EnsureConnection(rawConnection, created)
    /\ created' = IF rawConnection' # rawConnection THEN created + 1 ELSE created
    /\ callResult' = Result("getConnection", "", rawConnection')
    /\ lastRuns' = {}
    /\ RegUnchangedByCall

\* Mutant of createNotebookInstance: a notebook promise is handed back
createNotebookInstanceReturns(k) == Result("createNotebook", k, 1)

\* Lines 146-154: the base class's createNotebookInstance throws
createNotebookInstance(k) == Threw("createNotebook")

\* Lines 76-91: createNotebook is async and only delegates, so the promise it
\* returns is rejected with the error createNotebookInstance throws
createNotebook(k) ==
    /\ OnlyRegistry
    /\ callResult' = createNotebookInstance(k)
    /\ lastRuns' = {}
    /\ UNCHANGED <<rawConnection, created>>
    /\ RegUnchangedByCall

\* Mutant of NotebooksGet: the lookup finds nothing
NotebooksGetNone(map, k) == NoPromise

\* Line 94: this.notebooks.get(document.uri.toString())
NotebooksGet(map, k) == map[k]

getNotebook(k) ==
    /\ OnlyRegistry
    /\ callResult' = Result("getNotebook", k, NotebooksGet(notebooks, k))
    /\ lastRuns' = {}
    /\ UNCHANGED <<rawConnection, created>>
    /\ RegUnchangedByCall

\* Mutant of ShouldRemove: the entry is deleted by key, whatever promise it holds
ShouldRemoveByKey(map, k, p) == map[k] # NoPromise

\* Lines 123 and 132: the guard of both removal handlers
ShouldRemove(map, k, p) == map[k] = p

\* Mutant of RunHandlers: the handlers leave the map as it is
RunHandlersKeep(map, hs) == map

\* The removal handlers hs (removeNotebook of lines 122-126, the onDidDispose
\* listener of lines 131-135), each <<key, promise>>, run on the map
RunHandlers(map, hs) ==
    [k \in Keys |->
        IF \E p \in Promises : <<k, p>> \in hs /\ ShouldRemove(map, k, p)
        THEN NoPromise ELSE map[k]]

Runs(map, hs) == {[key |-> h[1], promise |-> h[2], before |-> map[h[1]]] : h \in hs}

\* The handlers of promise p for the keys ks
HandlersOf(p, ks) == {<<k, p>> : k \in ks}

\* A queued callback of setNotebook(k, p): the reaction of notebook.then
\* (lines 129-139, stage "then") or of .catch (line 140, stage "catch")
Job(stage, k, p) == [stage |-> stage, key |-> k, promise |-> p]

\* The reactions registered on promise p for the keys ks, in their order
ThenJobs(ks, p) == [i \in 1..Len(ks) |-> Job("then", ks[i], p)]

\* The callbacks of setNotebook registered on pending promises or queued
Callbacks(hs, q) ==
    LET Count[n \in 0..MaxPromises] ==
            IF n = 0 THEN 0 ELSE Len(hs[n]) + Count[n - 1]
    IN Count[MaxPromises] + Len(q)

\* Line 99: [...this.notebooks.values()]: the promises of the map in the
\* order of its keys, so a promise stored under two keys occurs twice
Tracked(map, ord) == [i \in 1..Len(ord) |-> map[ord[i]]]

\* Line 99 of dispose(): how the await of Promise.all over the promises of
\* the array ends once the promises are in state ps.  Promise.all rejects
\* with the first rejection and resolves when all have resolved (at once for
\* an empty array).
DisposeAwait(pcNow, snap, ps) ==
    IF pcNow # "waiting" THEN pcNow
    ELSE IF \E p \in Occurring(snap) : ps[p] = "rejected" THEN "failed"
    ELSE IF \A p \in Occurring(snap) : ps[p] \in ResolvedWith THEN "disposing"
    ELSE "waiting"

\* Line 100: where notebooks.map((n) => n?.session.dispose()) can stop with
\* an error (0: it does not).  For undefined nothing is called; reading
\* .session.dispose of a notebook without session throws, so map() never
\* gets past such an element; a call of session.dispose() may throw instead
\* of returning a promise.
ThrowPoints(snap, ps) ==
    {t \in 0..Len(snap) :
        /\ \A i \in 1..Len(snap) : ps[snap[i]] = "nosession" => (t # 0 /\ t <= i)
        /\ t # 0 => ps[snap[t]] \in {"resolved", "nosession"}}

\* Line 100: how often session.dispose() is called on the session of each
\* promise when map() stops at element t (0: it runs to the end): once for
\* each element that is a notebook with a session, up to and including t
DisposeRequests(snap, ps, t) ==
    LET last == IF t = 0 THEN Len(snap) ELSE t IN
    [p \in Promises |->
        Cardinality({i \in 1..last : snap[i] = p /\ ps[p] = "resolved"})]

\* The continuation of one dispose() call: past the await of line 99 once
\* Promise.all has settled (line 100 then calls session.dispose(); if that
\* line throws at element t, dispose() rejects there), past the await of
\* line 100 once one of those calls has failed or all of them have
\* completed (at once if there is none).
DisposeStep(c, ps, t) ==
    IF c.pc = "waiting"
    THEN LET now == DisposeAwait(c.pc, c.snap, ps) IN
         IF now = "disposing"
         THEN [c EXCEPT !.pc = IF t = 0 THEN "disposing" ELSE "failed",
                        !.req = DisposeRequests(c.snap, ps, t),
                        !.bad = (t # 0 /\ ps[c.snap[t]] = "resolved"),
                        !.stop = t]
         ELSE [c EXCEPT !.pc = now]
    ELSE IF c.pc = "disposing"
    THEN [c EXCEPT !.pc = IF c.bad THEN "failed"
                          ELSE IF c.fin = c.req THEN "done" ELSE "disposing"]
    ELSE c

\* The elements at which line 100 can stop when the continuation of call c
\* runs
ThrowPointsOf(c, ps) ==
    IF c.pc = "waiting" /\ DisposeAwait(c.pc, c.snap, ps) = "disposing"
    THEN ThrowPoints(c.snap, ps) ELSE {0}

\* One call in the bag becomes another
Replace(bag, c, d) == (bag (-) SetToBag({c})) (+) SetToBag({d})

\* Mutant of NotebooksSet: the promise is stored without regard to the key
NotebooksSetAnyKey(map, k, p) == [x \in Keys |-> p]

\* Line 143: this.notebooks.set(document.uri.toString(), notebook)
NotebooksSet(map, k, p) == [map EXCEPT ![k] = p]

\* Lines 121-144.  The .then and .catch callbacks are registered on the
\* promise (lines 128-140), then the entry is saved (line 143) and
\* setNotebook returns.  For a promise that has already settled the
\* reaction of .then is queued as a microtask at once.
setNotebook(k, p) ==
    /\ OnlyRegistry
    /\ Callbacks(handlers, microtasks) < MaxCallbacks
    /\ notebooks' = NotebooksSet(notebooks, k, p)
    /\ keyOrder' = KeyOrderAfter(keyOrder, notebooks')
    /\ lastRuns' = {}
    /\ IF promiseState[p] = "pending"
       THEN /\ handlers' = [handlers EXCEPT ![p] = Append(@, k)]
            /\ UNCHANGED microtasks
       ELSE /\ microtasks' = Append(microtasks, Job("then", k, p))
            /\ UNCHANGED handlers
    /\ callResult' = Result("setNotebook", k, p)
    /\ DisposeUntouched
    /\ UNCHANGED <<rawConnection, created, promiseState, listeners, sessionState>>

\* A session promise resolves with v (a notebook with a session, one without,
\* or undefined): the reactions registered on it are queued in the order of
\* their registration
Resolve(p, v) ==
    /\ OnlyRegistry
    /\ promiseState[p] = "pending"
    /\ promiseState' = [promiseState EXCEPT ![p] = v]
    /\ microtasks' = microtasks \o ThenJobs(handlers[p], p)
    /\ handlers' = [handlers EXCEPT ![p] = <<>>]
    /\ callResult' = NoResult
    /\ lastRuns' = {}
    /\ DisposeUntouched
    /\ UNCHANGED <<notebooks, keyOrder, rawConnection, created, listeners,
                   sessionState>>

\* A session promise rejects: the reactions registered on it are queued in
\* the order of their registration
Reject(p) ==
    /\ OnlyRegistry
    /\ promiseState[p] = "pending"
    /\ promiseState' = [promiseState EXCEPT ![p] = "rejected"]
    /\ microtasks' = microtasks \o ThenJobs(handlers[p], p)
    /\ handlers' = [handlers EXCEPT ![p] = <<>>]
    /\ callResult' = NoResult
    /\ lastRuns' = {}
    /\ DisposeUntouched
    /\ UNCHANGED <<notebooks, keyOrder, rawConnection, created, listeners,
                   sessionState>>

\* The execution session of a resolved notebook fires onDidDispose, once:
\* the listeners attached to it run at once.  A listener attached later is
\* never called.
SessionDisposed(p) ==
    /\ OnlyRegistry
    /\ promiseState[p] = "resolved"
    /\ sessionState[SessionOf(p)] = "live"
    /\ sessionState' = [sessionState EXCEPT ![SessionOf(p)] = "disposed"]
    /\ notebooks' = RunHandlers(notebooks, HandlersOf(p, listeners[p]))
    /\ keyOrder' = KeyOrderAfter(keyOrder, notebooks')
    /\ lastRuns' = Runs(notebooks, HandlersOf(p, listeners[p]))
    /\ listeners' = [listeners EXCEPT ![p] = {}]
    /\ callResult' = NoResult
    /\ DisposeUntouched
    /\ UNCHANGED <<rawConnection, created, promiseState, handlers, microtasks>>

\* Line 130: the callback of .then attaches its onDidDispose listener to the
\* session; on a session that has signalled disposal already the listener
\* will never be called
AttachListener(ls, k, p, ss) ==
    IF ss[SessionOf(p)] = "live" THEN [ls EXCEPT ![p] = @ \cup {k}] ELSE ls

\* Line 130: whether the call of session.onDidDispose throws; it is made only
\* by the reaction of .then for a promise that resolved with a notebook that
\* has a session
OnDidDisposeThrows(j, ps) ==
    IF j.stage = "then" /\ ps[j.promise] = "resolved" THEN BOOLEAN ELSE {FALSE}

\* The microtask at the head of the queue runs.  The reaction of .then for
\* a promise that resolved with a notebook calls session.onDidDispose (line
\* 130), which attaches the listener; the reaction of .catch that follows
\* does nothing then.  If the callback of lines 129-139 throws (the promise
\* resolved with undefined or with a notebook without session, or
\* onDidDispose throws, having attached nothing), or if the promise
\* rejected, the promise of .then rejects, which queues the reaction of
\* .catch (line 140), and that reaction runs removeNotebook.  Whatever comes
\* between two microtasks of the provider (microtasks of other parties) is
\* the other steps.
RunMicrotask ==
    /\ OnlyRegistry
    /\ microtasks # <<>>
    /\ LET j == Head(microtasks) IN
       \E throws \in OnDidDisposeThrows(j, promiseState) :
          IF j.stage = "then" /\ promiseState[j.promise] = "resolved" /\ ~throws
          THEN /\ listeners' = AttachListener(listeners, j.key, j.promise, sessionState)
               /\ microtasks' = Tail(microtasks)
               /\ lastRuns' = {}
               /\ UNCHANGED <<notebooks, keyOrder>>
          ELSE IF j.stage = "then"
          THEN /\ microtasks' = Append(Tail(microtasks), Job("catch", j.key, j.promise))
               /\ lastRuns' = {}
               /\ UNCHANGED <<notebooks, keyOrder, listeners>>
          ELSE /\ notebooks' = RunHandlers(notebooks, HandlersOf(j.promise, {j.key}))
               /\ keyOrder' = KeyOrderAfter(keyOrder, notebooks')
               /\ lastRuns' = Runs(notebooks, HandlersOf(j.promise, {j.key}))
               /\ microtasks' = Tail(microtasks)
               /\ UNCHANGED listeners
    /\ callResult' = NoResult
    /\ DisposeUntouched
    /\ UNCHANGED <<rawConnection, created, promiseState, handlers, sessionState>>

\* Lines 97-101: dispose() is called; it takes the promises in the map and
\* waits for them (line 99)
dispose ==
    /\ OnlyRegistry
    /\ BagCardinality(Ongoing(disposeCalls)) < MaxDisposeCalls
    /\ disposeCalls' = Ongoing(disposeCalls) (+)
          SetToBag({DisposeCall("waiting", Tracked(notebooks, keyOrder),
                                NoPromises, NoPromises, FALSE, 0)})
    /\ callResult' = NoResult
    /\ lastRuns' = {}
    /\ UNCHANGED <<notebooks, keyOrder, rawConnection, created, promiseState,
                   handlers, listeners, sessionState, microtasks>>

\* The continuation of one dispose() call runs, a microtask of its own: the
\* call gets past the await it stands at; line 100 stops at element t if it
\* throws there
DisposeContinue(c, t) ==
    /\ OnlyRegistry
    /\ ~DisposeOver(c)
    /\ t \in ThrowPointsOf(c, promiseState)
    /\ DisposeStep(c, promiseState, t) # c
    /\ disposeCalls' = Replace(Ongoing(disposeCalls), c, DisposeStep(c, promiseState, t))
    /\ callResult' = NoResult
    /\ lastRuns' = {}
    /\ UNCHANGED <<notebooks, keyOrder, rawConnection, created, promiseState,
                   handlers, listeners, sessionState, microtasks>>

\* The promise of one of the session.dispose() calls of line 100 completes;
\* once Promise.all has a rejection, what the other calls do plays no part
SessionDisposeDone(c, s) ==
    /\ OnlyRegistry
    /\ c.pc = "disposing"
    /\ ~c.bad
    /\ c.fin[s] < c.req[s]
    /\ disposeCalls' = Replace(Ongoing(disposeCalls), c, [c EXCEPT !.fin[s] = @ + 1])
    /\ callResult' = NoResult
    /\ lastRuns' = {}
    /\ UNCHANGED <<notebooks, keyOrder, rawConnection, created, promiseState,
                   handlers, listeners, sessionState, microtasks>>

\* The promise of one of the session.dispose() calls of line 100 rejects
SessionDisposeFail(c, s) ==
    /\ OnlyRegistry
    /\ c.pc = "disposing"
    /\ ~c.bad
    /\ c.fin[s] < c.req[s]
    /\ disposeCalls' = Replace(Ongoing(disposeCalls), c, [c EXCEPT !.bad = TRUE])
    /\ callResult' = NoResult
    /\ lastRuns' = {}
    /\ UNCHANGED <<notebooks, keyOrder, rawConnection, created, promiseState,
                   handlers, listeners, sessionState, microtasks>>

(***************************************************************************)
(* Specifications                                                          *)
(***************************************************************************)
InitSort ==
    /\ sortIndex = 0
    /\ sortPrev = <<>>
    /\ sortText = <<>>
    /\ sortDone = FALSE

InitCompletion ==
    /\ pc = "idle"
    /\ req = NoRequest
    /\ token = FALSE
    /\ rpc = "none"
    /\ rpcReply = ReplyUndefined
    /\ rpcCount = 0
    /\ cancelPromise = "none"
    /\ inner = InnerNone
    /\ timer = "none"
    /\ raceResult = RacePending
    /\ outcome = NotReturned
    /\ calls = {}
    /\ events = <<>>

InitRegistry ==
    /\ notebooks = [k \in Keys |-> NoPromise]
    /\ keyOrder = <<>>
    /\ rawConnection = NoConnection
    /\ created = 0
    /\ callResult = NoResult
    /\ promiseState = [p \in Promises |-> "pending"]
    /\ handlers = [p \in Promises |-> <<>>]
    /\ listeners = [p \in Promises |-> {}]
    /\ sessionState = [p \in Promises |-> "live"]
    /\ disposeCalls = EmptyBag
    /\ microtasks = <<>>
    /\ lastRuns = {}

Init == InitSort /\ InitCompletion /\ InitRegistry

\* generateSortString is applied to an index and to the one before it
GenerateSortStrings(index) ==
    /\ OnlySort
    /\ sortIndex' = index
    /\ sortPrev' = generateSortString(index - 1)
    /\ sortText' = generateSortString(index)
    /\ sortDone' = TRUE

NextSort == \E index \in SortIndices : GenerateSortStrings(index)

NextCompletion ==
    \/ ProvideCall
    \/ RpcSettle
    \/ RpcReject
    \/ Cancel
    \/ TimerFire

\* Every step of the provider
NextProvider ==
    \/ \E getOnly \in BOOLEAN : connect(getOnly)
    \/ getConnection
    \/ \E k \in Keys : createNotebook(k)
    \/ \E k \in Keys : getNotebook(k)
    \/ \E k \in Keys, p \in Promises : setNotebook(k, p)
    \/ RunMicrotask
    \/ \E p \in Promises, v \in ResolvedWith : Resolve(p, v)
    \/ \E p \in Promises : Reject(p)
    \/ \E p \in Promises : SessionDisposed(p)
    \/ dispose
    \/ \E c \in BagToSet(disposeCalls), t \in 0..Cardinality(Keys) : DisposeContinue(c, t)
    \/ \E c \in BagToSet(disposeCalls), s \in Promises : SessionDisposeDone(c, s)
    \/ \E c \in BagToSet(disposeCalls), s \in Promises : SessionDisposeFail(c, s)

\* The map of notebooks: registrations, lookups, and the promises and
\* sessions whose handlers remove entries.
Next ==
    \/ \E k \in Keys : getNotebook(k)
    \/ \E k \in Keys, p \in Promises : setNotebook(k, p)
    \/ RunMicrotask
    \/ \E p \in Promises, v \in ResolvedWith : Resolve(p, v)
    \/ \E p \in Promises : Reject(p)
    \/ \E p \in Promises : SessionDisposed(p)

\* The method calls of the provider, with every promise pending
NextConnection ==
    \/ \E getOnly \in BOOLEAN : connect(getOnly)
    \/ getConnection
    \/ \E k \in Keys : createNotebook(k)
    \/ \E k \in Keys : getNotebook(k)
    \/ \E k \in Keys, p \in Promises : setNotebook(k, p)
    \/ dispose
    \/ \E c \in BagToSet(disposeCalls), t \in 0..Cardinality(Keys) : DisposeContinue(c, t)

\* dispose() and everything the provider accepts while it is in progress:
\* registrations, the promises settling, sessions signalling disposal, the
\* microtasks, the disposals completing or failing
NextDispose ==
    \/ \E k \in Keys, p \in Promises : setNotebook(k, p)
    \/ RunMicrotask
    \/ \E p \in Promises, v \in ResolvedWith : Resolve(p, v)
    \/ \E p \in Promises : Reject(p)
    \/ \E p \in Promises : SessionDisposed(p)
    \/ dispose
    \/ \E c \in BagToSet(disposeCalls), t \in 0..Cardinality(Keys) : DisposeContinue(c, t)
    \/ \E c \in BagToSet(disposeCalls), s \in Promises : SessionDisposeDone(c, s)
    \/ \E c \in BagToSet(disposeCalls), s \in Promises : SessionDisposeFail(c, s)

SpecSort == Init /\ [][NextSort]_vars
SpecCompletion == Init /\ [][NextCompletion]_vars
Spec == Init /\ [][Next]_vars
SpecConnection == Init /\ [][NextConnection]_vars
SpecDispose == Init /\ [][NextDispose]_vars
SpecProvider == Init /\ [][NextProvider]_vars

\* The calls and events that concern the map of notebooks, together with
\* connect and dispose(), whose disposals stay outstanding
NextIsolation ==
    \/ \E getOnly \in BOOLEAN : connect(getOnly)
    \/ \E k \in Keys : getNotebook(k)
    \/ \E k \in Keys, p \in Promises : setNotebook(k, p)
    \/ RunMicrotask
    \/ \E p \in Promises, v \in ResolvedWith : Resolve(p, v)
    \/ \E p \in Promises : Reject(p)
    \/ \E p \in Promises : SessionDisposed(p)
    \/ dispose
    \/ \E c \in BagToSet(disposeCalls), t \in 0..Cardinality(Keys) : DisposeContinue(c, t)

SpecIsolation == Init /\ [][NextIsolation]_vars


\* The map of notebooks with a microtask queue that runs: the event loop
\* runs every queued microtask before it goes on.
SpecFair == Spec /\ WF_vars(RunMicrotask)

\* The completion provider with a timer that expires: sleep(timeout) of line
\* 66 is a timer of the event loop, which runs its continuation once the
\* timeout has passed.  Nothing is assumed of the request or the caller.
SpecCompletionFair == SpecCompletion /\ WF_vars(TimerFire)

(***************************************************************************)
(* Properties                                                              *)
(***************************************************************************)
\* Position of event e in the order of events (0: it has not happened)
EventAt(e) ==
    IF \E i \in 1..Len(events) : events[i] = e
    THEN CHOOSE i \in 1..Len(events) : events[i] = e
    ELSE 0

Happened(e) == EventAt(e) > 0

\* e happened, and before f if f happened at all
HappenedBefore(e, f) == Happened(e) /\ (Happened(f) => EventAt(e) < EventAt(f))

\* provideCompletionItems was called and passed its guards
RaceStarted == Happened("call") /\ GuardsPass(req)

\* The first branch event after the call, once the request was issued
FirstSettled(e) ==
    /\ RaceStarted
    /\ ~req.busy
    /\ Len(events) >= 2
    /\ events[1] = "call"
    /\ events[2] = e

\* The experimental match set of completion c is valid, as the specification
\* defines it: present, a sequence at least as long as matches, every element
\* with a numeric start, a numeric end and a string text
ValidExperimental(c) ==
    /\ c.metadata.present
    /\ c.metadata.exp.kind = "array"
    /\ Len(c.metadata.exp.elems) >= Len(c.matches)
    /\ \A i \in 1..Len(c.metadata.exp.elems) :
          LET e == c.metadata.exp.elems[i] IN
          ~e.isNull /\ e.startT = "number" /\ e.endT = "number" /\ e.textT = "string"

\* provideCompletionItems returned after the race settled with a completion
ReturnedFrom(c) == pc = "done" /\ raceResult = RaceValue(c)

\* C1: in the step in which the execution session of promise p signals
\* disposal, whatever calls, settlements and microtasks came before it in
\* whatever order, every entry of the map that holds another promise than p stays
\* as it is: the handler of a superseded promise never removes the entry a
\* newer registration put under the same key.
C1_StaleDisposalKeepsEntry ==
    [][\A p \in Promises, k \in Keys :
          (/\ sessionState[SessionOf(p)] = "live"
           /\ sessionState'[SessionOf(p)] = "disposed"
           /\ notebooks[k] # NoPromise
           /\ notebooks[k] # p)
          => notebooks'[k] = notebooks[k]]_vars

\* C1 witness: the disposal handler of a resolved promise ran for a key that
\* held a newer promise, and the key still holds it.
C1_Witness ==
    \E r \in lastRuns :
        /\ promiseState[r.promise] = "resolved"
        /\ sessionState[SessionOf(r.promise)] = "disposed"
        /\ r.before # NoPromise
        /\ r.before # r.promise
        /\ notebooks[r.key] = r.before

\* C2: at most one RawConnection is ever constructed; the stored connection
\* is none exactly until it is constructed and is that one instance from
\* then on.  A connect with getOnly returns the stored connection as it was
\* before the call (none before the first creation) and creates nothing; a
\* connect without getOnly and getConnection create the instance if none is
\* stored, and only then, and return the one instance.  No other step
\* (setNotebook, getNotebook, createNotebook, dispose and its continuation)
\* changes the stored connection.
C2_ConnectionSingleton ==
    /\ [](/\ created <= 1
          /\ rawConnection = (IF created = 0 THEN NoConnection ELSE 1))
    /\ [][/\ (callResult'.op = "connectGetOnly" =>
                 /\ callResult'.val = rawConnection
                 /\ rawConnection' = rawConnection
                 /\ created' = created)
           /\ (callResult'.op \in {"connect", "getConnection"} =>
                 /\ callResult'.val = 1
                 /\ rawConnection' = 1
                 /\ created' = (IF rawConnection = NoConnection THEN created + 1 ELSE created))
           /\ (callResult'.op \notin {"connect", "connectGetOnly", "getConnection"} =>
                 /\ rawConnection' = rawConnection
                 /\ created' = created)]_vars

\* C2 witness: with a session registered and a dispose() call in progress,
\* but no connection created yet, a connect with getOnly returned none and
\* created nothing.
C2_Witness ==
    /\ callResult = Result("connectGetOnly", "", NoConnection)
    /\ rawConnection = NoConnection
    /\ created = 0
    /\ \E k \in Keys : notebooks[k] # NoPromise
    /\ \E c \in BagToSet(disposeCalls) : c.pc = "waiting"

\* C3: for every index in [0,300) the sort key of index - 1 is strictly
\* below the sort key of index, the key is two characters of 'A'..'Z', and
\* the key of 300 is not below the key of 299.
C3_SortKeysMonotone ==
    sortDone =>
        /\ (sortIndex < SortLimit =>
              /\ StrLess(sortPrev, sortText)
              /\ Len(sortText) = 2
              /\ \A i \in 1..Len(sortText) : sortText[i] \in CharA..CharZ)
        /\ (sortIndex = SortLimit => ~StrLess(sortText, sortPrev))

\* C4: when cancellation is requested before the completion request or the
\* timer has settled, provideCompletionItems has returned the empty sequence
\* (no error), and the timer branch never yields the empty-result sentinel.
\* Stated for the requests that do not fail (a failing request is the
\* subject of C10).
C4_CancelledFirstIsEmpty ==
    (RaceStarted /\ HappenedBefore("cancel", "rpc")
        /\ ~Happened("rpcfail") /\ HappenedBefore("cancel", "timer"))
    => (pc = "done" /\ outcome = Returned(<<>>) /\ timer # "sentinel")

\* C5: the first branch to settle decides what is returned, also after the
\* other branch settles later: if the timer fires first, with the request
\* outstanding and no cancellation, the result is the empty sequence (the
\* race settled with the empty result); if the request resolves first, the
\* result is the one derived from its reply.
C5_FirstSettledWins ==
    /\ (FirstSettled("timer") =>
          pc = "done" /\ raceResult = RaceValue(emptyResult) /\ outcome = Returned(<<>>))
    /\ (FirstSettled("rpc") =>
          pc = "done" /\ outcome = AfterRace(RaceValue(CompletionOfReply(rpcReply))))

\* C5 witness: the timer fired first and a reply with matches came after it.
C5_Witness ==
    /\ events = <<"call", "timer", "rpc">>
    /\ rpcReply.shape = "matches"
    /\ Len(rpcReply.content.matches) > 0
    /\ outcome = Returned(<<>>)

\* C6: the items returned are those of the experimental match set if it is
\* valid and those of matches in every other case, never a mix.
C6_SchemaAllOrNothing ==
    \A c \in {raceResult.val} :
        ReturnedFrom(c) =>
            outcome = (IF ValidExperimental(c)
                       THEN Returned(ExperimentalItems(c.metadata.exp.elems))
                       ELSE Returned(MatchItems(c.matches)))

\* C7: with a valid experimental match set, one item per experimental
\* element is returned, in order: item i has the text of element i as label,
\* its start and end as range and the sort key of rank i.
C7_ExperimentalItems ==
    \A c \in {raceResult.val} :
        (ReturnedFrom(c) /\ ValidExperimental(c)) =>
            LET es == c.metadata.exp.elems IN
            /\ outcome.st = "items"
            /\ Len(outcome.items) = Len(es)
            /\ \A i \in 1..Len(es) :
                  /\ outcome.items[i].label = es[i].text
                  /\ outcome.items[i].hasRange
                  /\ outcome.items[i].range = <<es[i].start, es[i].end>>
                  /\ outcome.items[i].sortText = generateSortString(i - 1)

\* C7 witness: a valid experimental set longer than matches was returned.
C7_Witness ==
    /\ pc = "done"
    /\ raceResult.st = "value"
    /\ ValidExperimental(raceResult.val)
    /\ Len(raceResult.val.metadata.exp.elems) > Len(raceResult.val.matches)
    /\ Len(raceResult.val.matches) > 0
    /\ outcome.st = "items"
    /\ Len(outcome.items) = Len(raceResult.val.metadata.exp.elems)

\* C8: without a valid experimental match set, one item per element of
\* matches is returned, in order: item i has matches[i] as label, the sort
\* key of rank i and no range.
C8_MatchItems ==
    \A c \in {raceResult.val} :
        (ReturnedFrom(c) /\ ~ValidExperimental(c)) =>
            /\ outcome.st = "items"
            /\ Len(outcome.items) = Len(c.matches)
            /\ \A i \in 1..Len(c.matches) :
                  /\ outcome.items[i].label = c.matches[i]
                  /\ ~outcome.items[i].hasRange
                  /\ outcome.items[i].sortText = generateSortString(i - 1)

\* C9: for a busy session, getJupyterCompletion resolves with the empty
\* result, no completion request is ever issued, and provideCompletionItems
\* returns the empty sequence without an error.
C9_BusySkipsRequest ==
    (RaceStarted /\ req.busy) =>
        /\ rpcCount = 0
        /\ rpc = "none"
        /\ inner = InnerResolved(emptyResult)
        /\ pc = "done"
        /\ outcome = Returned(<<>>)

\* C9 witness: a call on a busy session returned and its timer expired later.
C9_Witness ==
    /\ RaceStarted
    /\ req.busy
    /\ events = <<"call", "timer">>
    /\ outcome = Returned(<<>>)

\* C10: when the completion request fails before the timer or a
\* cancellation settles, provideCompletionItems returns the empty sequence
\* and raises no error.
C10_RequestFailureIsEmpty ==
    FirstSettled("rpcfail") => (outcome.st # "error" /\ outcome = Returned(<<>>))

\* C11: once dispose() has stopped waiting for the promises it took from the
\* map (it went on to the disposals, completed or failed), the disposal of
\* the execution session of every one of those promises that resolved has
\* been requested, also when another of them rejected or a disposal failed.
\* Stated for the calls whose promises resolve with notebooks that have a
\* session.
C11_DisposeToleratesFailures ==
    \A c \in BagToSet(disposeCalls) :
        (/\ c.pc \in {"disposing", "done", "failed"}
         /\ \A q \in Occurring(c.snap) : promiseState[q] \notin {"nosession", "undefined"})
        => \A p \in Occurring(c.snap) :
              promiseState[p] = "resolved" => c.req[SessionOf(p)] > 0

\* C12: a call whose document is not a notebook cell, or has no notebook, or
\* whose notebook has no kernel or no session, has returned the empty
\* sequence with no error, no completion request, no cancellation promise
\* and no timer started; for a document that is not a notebook cell no
\* collaborator was asked at all, and the kernel session is never touched.
C12_GuardFailureIsEmpty ==
    (Happened("call")
        /\ ~(req.isCell /\ req.hasNotebook /\ req.hasKernel /\ req.hasSession))
    => /\ pc = "done"
       /\ outcome = Returned(<<>>)
       /\ rpcCount = 0
       /\ rpc = "none"
       /\ cancelPromise = "none"
       /\ inner = InnerNone
       /\ timer = "none"
       /\ raceResult = RacePending
       /\ "session" \notin calls
       /\ (~req.isCell => calls = {})
       /\ ((req.isCell /\ ~req.hasNotebook) => calls = {"resolver"})

\* C12 witness: a call for a document that is not a notebook cell, although a
\* notebook, kernel and session exist, returned empty without any
\* collaborator, and the token was cancelled afterwards.
C12_Witness ==
    /\ events = <<"call", "cancel">>
    /\ ~req.isCell
    /\ req.hasNotebook /\ req.hasKernel /\ req.hasSession
    /\ calls = {}
    /\ outcome = Returned(<<>>)

\* C13: an entry that holds a rejected promise has a callback of its
\* registration queued, whether the promise rejected after the registration
\* or before it, and the entry is eventually removed (getNotebook yields none
\* then).  The removal handler removes the entry of its own key if the key
\* still holds the rejected promise and changes no other entry; if the key
\* holds another promise by then, that entry stays.  The rejection itself
\* changes no entry.
C13_RejectionRemovesEntry ==
    /\ [](\A k \in Keys :
             (notebooks[k] # NoPromise /\ promiseState[notebooks[k]] = "rejected")
                 => \E i \in 1..Len(microtasks) :
                       /\ microtasks[i].key = k
                       /\ microtasks[i].promise = notebooks[k])
    /\ [][\A p \in Promises, k \in Keys :
             /\ (promiseState[p] = "pending" /\ promiseState'[p] = "rejected") =>
                   notebooks' = notebooks
             /\ (/\ microtasks # <<>>
                 /\ Head(microtasks) = Job("catch", k, p)
                 /\ microtasks' = Tail(microtasks)) =>
                   /\ (notebooks[k] = p => notebooks'[k] = NoPromise)
                   /\ (notebooks[k] # p => notebooks'[k] = notebooks[k])
                   /\ \A x \in Keys \ {k} : notebooks'[x] = notebooks[x]]_vars
    /\ \A p \in Promises, k \in Keys :
          (notebooks[k] = p /\ promiseState[p] = "rejected") ~> (notebooks[k] # p)

\* C13 witness: the removal handler of a rejected promise has just run for a
\* key that still held it, and the entry is gone; the other key holds
\* another promise, still pending with its callback registered, and keeps it.
C13_Witness ==
    \E r \in lastRuns :
        /\ promiseState[r.promise] = "rejected"
        /\ r.before = r.promise
        /\ notebooks[r.key] = NoPromise
        /\ \E k \in Keys \ {r.key} :
              /\ notebooks[k] # NoPromise
              /\ notebooks[k] # r.promise
              /\ promiseState[notebooks[k]] = "pending"
              /\ handlers[notebooks[k]] = <<k>>

\* C14: in every step in which the execution session of a resolved promise p
\* signals disposal, every key that holds p loses its entry, whatever the
\* order of the resolution, the signal and the attachment of the listener.
C14_DisposalRemovesEntry ==
    [][\A p \in Promises, k \in Keys :
          (/\ sessionState[SessionOf(p)] = "live"
           /\ sessionState'[SessionOf(p)] = "disposed"
           /\ promiseState'[p] = "resolved"
           /\ notebooks[k] = p)
          => notebooks'[k] = NoPromise]_vars

\* C15: a call of createNotebook on the base class fails with an error and
\* yields no notebook, and the call leaves the map of notebooks, the stored
\* connection and the number of connections constructed as they were.
C15_CreateNotebookThrows ==
    [][callResult'.op = "createNotebook" =>
          /\ callResult'.threw
          /\ callResult'.val = NoPromise
          /\ notebooks' = notebooks
          /\ rawConnection' = rawConnection
          /\ created' = created]_vars

\* C15 witness: createNotebook failed while a notebook was registered and
\* the connection existed; both are still there.
C15_Witness ==
    /\ callResult.op = "createNotebook"
    /\ callResult.threw
    /\ rawConnection # NoConnection
    /\ \E k \in Keys : notebooks[k] # NoPromise

\* C16: getNotebook returns the entry the map holds under the key (none
\* without an entry) and leaves the map and the connection as they were; the
\* entry under a key becomes a promise only by a setNotebook call for that
\* key and promise, and setNotebook stores its promise under the key whatever
\* was there, so the entry is the promise registered last that was not
\* removed.
C16_GetNotebookIsPureLookup ==
    [][/\ (callResult'.op = "getNotebook" =>
             /\ ~callResult'.threw
             /\ callResult'.val = notebooks[callResult'.key]
             /\ notebooks' = notebooks
             /\ rawConnection' = rawConnection
             /\ created' = created)
       /\ (callResult'.op = "setNotebook" =>
             notebooks'[callResult'.key] = callResult'.val)
       /\ \A k \in Keys :
             (notebooks'[k] # notebooks[k] /\ notebooks'[k] # NoPromise) =>
                 /\ callResult'.op = "setNotebook"
                 /\ callResult'.key = k
                 /\ callResult'.val = notebooks'[k]]_vars

\* C16 witness: a key registered with one promise and then with another was
\* looked up: the later promise came back and no connection was created.
C16_Witness ==
    /\ callResult.op = "getNotebook"
    /\ callResult.val # NoPromise
    /\ notebooks[callResult.key] = callResult.val
    /\ \E q \in Promises \ {callResult.val} :
          \E i \in 1..Len(handlers[q]) : handlers[q][i] = callResult.key
    /\ rawConnection = NoConnection
    /\ created = 0

\* C17: every item made from a valid experimental match set has a kind: the
\* kind the table holds for the element's type tag if the tag is present and
\* known, and the generic field kind if the tag is absent or unknown to the
\* table; the kind is never undefined.
C17_KindMapping ==
    \A c \in {raceResult.val} :
        (ReturnedFrom(c) /\ ValidExperimental(c)) =>
            LET es == c.metadata.exp.elems IN
            /\ outcome.st = "items"
            /\ Len(outcome.items) = Len(es)
            /\ \A i \in 1..Len(es) :
                  /\ outcome.items[i].kind # "undefined"
                  /\ outcome.items[i].kind =
                        (IF es[i].type \in KnownKinds THEN es[i].type ELSE "Field")

\* C18: a dispose() call that waits for the promises it took from the map
\* has requested no session disposal, and a call has requested disposals
\* only if all of those promises have resolved.  When all of them have
\* resolved with notebooks that have a session: a call whose line 100 ran to
\* its end has requested the disposal of the session of each of them, once
\* for each entry that held it, and a call that has requested disposals is
\* over (fulfilled or rejected) only when every one of the requested
\* disposals has completed (but for the one that failed, if one failed).
C18_DisposeOrdering ==
    \A c \in BagToSet(disposeCalls) :
        /\ (c.pc = "waiting" => c.req = NoPromises)
        /\ (c.req # NoPromises =>
              \A p \in Occurring(c.snap) : promiseState[p] \in ResolvedWith)
        /\ \A p \in Promises : c.fin[p] <= c.req[p]
        /\ (\A p \in Occurring(c.snap) : promiseState[p] = "resolved") =>
              /\ ((c.pc # "waiting" /\ c.stop = 0) =>
                    \A p \in Promises :
                        c.req[SessionOf(p)] =
                            Cardinality({i \in 1..Len(c.snap) : c.snap[i] = p}))
              /\ ((DisposeOver(c) /\ c.req # NoPromises) =>
                    \A s \in Promises :
                        \/ c.fin[s] = c.req[s]
                        \/ /\ c.bad
                           /\ c.fin[s] + 1 = c.req[s]
                           /\ \A x \in Promises \ {s} : c.fin[x] = c.req[x])

\* C19: every call of provideCompletionItems comes to an end if the timer
\* expires: whether or not the request ever settles and whenever the token
\* is cancelled (before the call, during the race, or never), a call that
\* was made is eventually over (it has returned, or failed).
C19_CallEventuallyReturns ==
    (pc # "idle") ~> (pc = "done" /\ outcome # NotReturned)

\* C19 witness: the request is still outstanding and nothing was cancelled,
\* yet the call has returned because the timer expired.
C19_Witness ==
    /\ events = <<"call", "timer">>
    /\ ~req.busy
    /\ rpc = "pending"
    /\ ~token
    /\ pc = "done"
    /\ outcome = Returned(<<>>)

\* C20: in every step, the entry under a key changes only (a) by a
\* setNotebook call for that very key, to the promise registered, or (b)
\* from a promise to no entry, by a handler of that very promise: when its
\* execution session signals disposal with the listener for that key
\* attached, or when the removal handler queued for that key and that
\* promise runs.  So a registration, resolution, rejection or disposal
\* signal that concerns one key leaves every other key's entry alone, and
\* connect, getNotebook, dispose and the continuation of dispose change no
\* entry.
C20_PerKeyIsolation ==
    [][\A k \in Keys :
          notebooks'[k] # notebooks[k] =>
              \/ /\ callResult'.op = "setNotebook"
                 /\ callResult'.key = k
                 /\ notebooks'[k] = callResult'.val
              \/ /\ callResult'.op = "none"
                 /\ disposeCalls' = Ongoing(disposeCalls)
                 /\ notebooks[k] # NoPromise
                 /\ notebooks'[k] = NoPromise
                 /\ \/ (/\ sessionState[SessionOf(notebooks[k])] = "live"
                        /\ sessionState'[SessionOf(notebooks[k])] = "disposed"
                        /\ k \in listeners[notebooks[k]])
                    \/ (/\ microtasks # <<>>
                        /\ Head(microtasks) = Job("catch", k, notebooks[k])
                        /\ microtasks' = Tail(microtasks))]_vars

\* C20 witness: with both keys registered, each with its own resolved
\* promise, a dispose() call in progress and the connection created, the
\* session of one promise signalled disposal: its key lost the entry and the
\* other key still holds its promise.
C20_Witness ==
    \E r \in lastRuns :
        /\ sessionState[SessionOf(r.promise)] = "disposed"
        /\ r.before = r.promise
        /\ notebooks[r.key] = NoPromise
        /\ rawConnection # NoConnection
        /\ \E c \in BagToSet(disposeCalls) : c.pc = "disposing"
        /\ \E k \in Keys \ {r.key} :
              /\ notebooks[k] # NoPromise
              /\ notebooks[k] # r.promise
              /\ promiseState[notebooks[k]] = "resolved"
              /\ sessionState[SessionOf(notebooks[k])] = "live"
              /\ k \in listeners[notebooks[k]]

====
